---- MODULE Spec2Model ----
(***************************************************************************)
(* Model of src/main.py: a FastAPI TODO service with three in-memory       *)
(* repositories (users, projects, tasks) and nine request handlers.        *)
(*                                                                         *)
(* Spec     : every request handler runs to completion (one action each).  *)
(* SpecConc : two handlers of the Task repository run in two worker        *)
(*            threads and interleave between the steps of their scan loop  *)
(*            and their list write (the handlers are plain `def`, which    *)
(*            FastAPI runs in a thread pool).                              *)
(***************************************************************************)
EXTENDS Integers, Sequences, FiniteSets, TLC

VARIABLES
    users,      \* user_repo.users       : sequence of User
    projects,   \* project_repo.projects : sequence of Project
    tasks,      \* task_repo.tasks       : sequence of Task
    issued,     \* per collection, how many identifiers uuid4() has made for it
    last,       \* the request handled last and its response
    th,         \* SpecConc: the two worker threads
    tasks0      \* SpecConc: task_repo.tasks when the two requests arrived

vars == <<users, projects, tasks, issued, last, th, tasks0>>

----------------------------------------------------------------------------
(* Bounds and input domains *)

\* uuid4() is called at most MaxIds times in a behaviour.
MaxIds == 4

\* uuid4(): identifiers are compared only within one collection (a Task's id
\* with task ids, a project_id with Project ids, a user_id with User ids), so
\* the k-th identifier made for a collection is written k.
uuid4(c) == issued[c] + 1

\* An identifier a client sends that uuid4() never returns.
Foreign == MaxIds + 1

\* The identifiers a client can put in a request where an identifier of
\* collection c is expected: those the server made, and one it never made.
ClientIds(c) == (1 .. issued[c]) \cup {Foreign}

UserNames == {"Ann"}
ProjectNames == {"P"}
\* JSON bodies of a task without its identifiers. Optional fields: <<>> is
\* "field omitted", <<v>> is "field given as v".
RawPayloads ==
    {[title |-> "T", description |-> <<>>, completed |-> <<>>],
     [title |-> "U", description |-> <<"d">>, completed |-> <<TRUE>>]}

Threads == {1, 2}

----------------------------------------------------------------------------
(* Models (pydantic) *)

\* TaskCreate(title, description=None, completed=False, project_id)
TaskCreate(raw) ==
    [title       |-> raw.title,
     description |-> raw.description,
     completed   |-> IF raw.completed = <<>> THEN FALSE ELSE raw.completed[1],
     project_id  |-> raw.project_id]

\* Task(TaskCreate) with id
Task(id, tc) ==
    [id          |-> id,
     title       |-> tc.title,
     description |-> tc.description,
     completed   |-> tc.completed,
     project_id  |-> tc.project_id]

Project(id, pc) == [id |-> id, name |-> pc.name, user_id |-> pc.user_id]

User(id, uc) == [id |-> id, name |-> uc.name]

RawTaskCreates ==
    {[title |-> p.title, description |-> p.description,
      completed |-> p.completed, project_id |-> pid] :
        p \in RawPayloads, pid \in ClientIds("projects")}

\* The body of PUT /tasks/{task_id}: a full Task, id included. A body that
\* omits id gets one from uuid4() when it is parsed: an identifier no stored
\* Task has, which Foreign stands for.
RawTasks ==
    {[id |-> id, title |-> p.title, description |-> p.description,
      completed |-> p.completed, project_id |-> pid] :
        id \in ClientIds("tasks"), p \in RawPayloads,
        pid \in ClientIds("projects")}

ProjectCreates == [name : ProjectNames, user_id : ClientIds("users")]

UserCreates == [name : UserNames]

----------------------------------------------------------------------------
(* Repositories *)

\* The loop `for i, x in enumerate(xs): if x.id == id: ...`: the index of the
\* first element whose id is id, scanning from index i; 0 when there is none.
RECURSIVE Scan(_, _, _)
Scan(xs, id, i) ==
    IF i > Len(xs) THEN 0
    ELSE IF xs[i].id = id THEN i
    ELSE Scan(xs, id, i + 1)

\* del xs[i]
DelAt(xs, i) == [k \in 1 .. (Len(xs) - 1) |-> IF k < i THEN xs[k] ELSE xs[k + 1]]

\* xs[i] = x
SetAt(xs, i, x) == [xs EXCEPT ![i] = x]

\* TaskRepository.get with a scan that starts one element late
TaskRepository_get_skip_first(ts, task_id) ==
    LET i == Scan(ts, task_id, 2) IN
    IF i = 0 THEN <<>> ELSE <<ts[i]>>

\* TaskRepository.get: <<task>>, or <<>> for None
TaskRepository_get(ts, task_id) ==
    LET i == Scan(ts, task_id, 1) IN
    IF i = 0 THEN <<>> ELSE <<ts[i]>>

\* TaskRepository.create
TaskRepository_create(ts, id, task_data) == Append(ts, Task(id, task_data))

\* TaskRepository.update that appends the task when no task has task_id
TaskRepository_update_upsert(ts, task_id, new_task) ==
    LET i == Scan(ts, task_id, 1) IN
    IF i = 0 THEN [tasks |-> Append(ts, new_task), ret |-> <<new_task>>]
    ELSE [tasks |-> SetAt(ts, i, new_task), ret |-> <<new_task>>]

\* TaskRepository.update without the `return` inside the loop: every task
\* that has task_id is replaced
TaskRepository_update_all(ts, task_id, new_task) ==
    LET i == Scan(ts, task_id, 1) IN
    IF i = 0 THEN [tasks |-> ts, ret |-> <<>>]
    ELSE [tasks |-> [k \in DOMAIN ts |->
                        IF ts[k].id = task_id THEN new_task ELSE ts[k]],
          ret |-> <<new_task>>]

\* TaskRepository.update: the new list and <<new_task>>, or <<>> for None
TaskRepository_update(ts, task_id, new_task) ==
    LET i == Scan(ts, task_id, 1) IN
    IF i = 0 THEN [tasks |-> ts, ret |-> <<>>]
    ELSE [tasks |-> SetAt(ts, i, new_task), ret |-> <<new_task>>]

\* TaskRepository.delete: the new list and True/False
TaskRepository_delete(ts, task_id) ==
    LET i == Scan(ts, task_id, 1) IN
    IF i = 0 THEN [tasks |-> ts, ret |-> FALSE]
    ELSE [tasks |-> DelAt(ts, i), ret |-> TRUE]

ProjectRepository_create(ps, id, project_data) == Append(ps, Project(id, project_data))

UserRepository_create(us, id, user_data) == Append(us, User(id, user_data))

\* all(...) in the place of any(...)
AllId(xs, id) == \A i \in DOMAIN xs : xs[i].id = id

\* any(x.id == id for x in xs)
AnyId(xs, id) == \E i \in DOMAIN xs : xs[i].id = id

\* The filter with its result built back to front
RECURSIVE FilterBy_reversed(_, _, _)
FilterBy_reversed(xs, field, v) ==
    IF xs = <<>> THEN <<>>
    ELSE IF Head(xs)[field] = v
         THEN FilterBy_reversed(Tail(xs), field, v) \o <<Head(xs)>>
         ELSE FilterBy_reversed(Tail(xs), field, v)

\* [x for x in xs if x.<field> == v], as the comprehension computes it
RECURSIVE FilterBy(_, _, _)
FilterBy(xs, field, v) ==
    IF xs = <<>> THEN <<>>
    ELSE IF Head(xs)[field] = v
         THEN <<Head(xs)>> \o FilterBy(Tail(xs), field, v)
         ELSE FilterBy(Tail(xs), field, v)

----------------------------------------------------------------------------
(* Responses *)

Response(op, arg, body, status, resp) ==
    [op |-> op, arg |-> arg, body |-> body, status |-> status, resp |-> resp]

HTTPException(detail) == <<[detail |-> detail]>>

NoThread == [pc |-> "idle", op |-> "none", task_id |-> Foreign, body |-> <<>>,
             it |-> 0, i |-> 0, status |-> 0]

----------------------------------------------------------------------------
(* Spec: handlers that run to completion *)

\* The bound on the calls of uuid4().
CanMakeId == issued.users + issued.projects + issued.tasks < MaxIds

Init ==
    /\ users = <<>>
    /\ projects = <<>>
    /\ tasks = <<>>
    /\ issued = [users |-> 0, projects |-> 0, tasks |-> 0]
    /\ last = Response("none", <<>>, <<>>, 0, <<>>)
    /\ th = [t \in Threads |-> NoThread]
    /\ tasks0 = <<>>

\* GET /tasks. `if project_id:` holds for every UUID given (UUID defines
\* neither __bool__ nor __len__), so the filter runs whenever the parameter
\* is present.
get_tasks ==
    \E q \in {<<>>} \cup {<<id>> : id \in ClientIds("projects")} :
        /\ last' = Response("get_tasks", q, <<>>, 200,
                            IF q # <<>> THEN FilterBy(tasks, "project_id", q[1])
                            ELSE tasks)
        /\ UNCHANGED <<users, projects, tasks, issued, th, tasks0>>

\* POST /tasks
create_task ==
    \E raw \in RawTaskCreates :
        LET task == TaskCreate(raw) IN
        IF ~AnyId(projects, task.project_id)
        THEN /\ last' = Response("create_task", <<>>, <<raw>>, 400,
                                 HTTPException("Project does not exist"))
             /\ UNCHANGED <<users, projects, tasks, issued, th, tasks0>>
        ELSE /\ CanMakeId
             /\ tasks' = TaskRepository_create(tasks, uuid4("tasks"), task)
             /\ issued' = [issued EXCEPT !.tasks = @ + 1]
             /\ last' = Response("create_task", <<>>, <<raw>>, 200,
                                 <<Task(uuid4("tasks"), task)>>)
             /\ UNCHANGED <<users, projects, th, tasks0>>

\* GET /tasks/{task_id}
get_task ==
    \E task_id \in ClientIds("tasks") :
        LET task == TaskRepository_get(tasks, task_id) IN
        /\ last' = IF task = <<>>
                   THEN Response("get_task", <<task_id>>, <<>>, 404,
                                 HTTPException("Task not found"))
                   ELSE Response("get_task", <<task_id>>, <<>>, 200, task)
        /\ UNCHANGED <<users, projects, tasks, issued, th, tasks0>>

\* update_task without the check of project_id
update_task_handler_unchecked(ps, ts, task_id, raw) ==
    LET task == Task(raw.id, TaskCreate(raw))
        upd  == TaskRepository_update(ts, task_id, task)
    IN
    IF upd.ret = <<>>
    THEN [tasks |-> upd.tasks, status |-> 404,
          resp |-> HTTPException("Task not found")]
    ELSE [tasks |-> upd.tasks, status |-> 200, resp |-> upd.ret]

\* update_task with the check of project_id made after the repository call
update_task_handler_late_check(ps, ts, task_id, raw) ==
    LET task == Task(raw.id, TaskCreate(raw))
        upd  == TaskRepository_update(ts, task_id, task)
    IN
    IF upd.ret = <<>>
    THEN [tasks |-> upd.tasks, status |-> 404,
          resp |-> HTTPException("Task not found")]
    ELSE IF ~AnyId(ps, task.project_id)
    THEN [tasks |-> upd.tasks, status |-> 400,
          resp |-> HTTPException("Project does not exist")]
    ELSE [tasks |-> upd.tasks, status |-> 200, resp |-> upd.ret]

\* PUT /tasks/{task_id}: the handler's response and the task list it leaves
update_task_handler(ps, ts, task_id, raw) ==
    LET task == Task(raw.id, TaskCreate(raw))
        upd  == TaskRepository_update(ts, task_id, task)
    IN
    IF ~AnyId(ps, task.project_id)
    THEN [tasks |-> ts, status |-> 400,
          resp |-> HTTPException("Project does not exist")]
    ELSE IF upd.ret = <<>>
    THEN [tasks |-> upd.tasks, status |-> 404,
          resp |-> HTTPException("Task not found")]
    ELSE [tasks |-> upd.tasks, status |-> 200, resp |-> upd.ret]

update_task ==
    \E task_id \in ClientIds("tasks"), raw \in RawTasks :
        LET r == update_task_handler(projects, tasks, task_id, raw) IN
        /\ tasks' = r.tasks
        /\ last' = Response("update_task", <<task_id>>, <<raw>>, r.status, r.resp)
        /\ UNCHANGED <<users, projects, issued, th, tasks0>>

\* DELETE /tasks/{task_id}: the handler's response and the task list it leaves
delete_task_handler(ts, task_id) ==
    LET del == TaskRepository_delete(ts, task_id) IN
    IF ~del.ret
    THEN [tasks |-> del.tasks, status |-> 404,
          resp |-> HTTPException("Task not found")]
    ELSE [tasks |-> del.tasks, status |-> 200,
          resp |-> <<[message |-> "Task deleted"]>>]

delete_task ==
    \E task_id \in ClientIds("tasks") :
        LET r == delete_task_handler(tasks, task_id) IN
        /\ tasks' = r.tasks
        /\ last' = Response("delete_task", <<task_id>>, <<>>, r.status, r.resp)
        /\ UNCHANGED <<users, projects, issued, th, tasks0>>

\* GET /projects
get_projects ==
    \E q \in {<<>>} \cup {<<id>> : id \in ClientIds("users")} :
        /\ last' = Response("get_projects", q, <<>>, 200,
                            IF q # <<>> THEN FilterBy(projects, "user_id", q[1])
                            ELSE projects)
        /\ UNCHANGED <<users, projects, tasks, issued, th, tasks0>>

\* POST /projects
create_project ==
    \E project \in ProjectCreates :
        IF ~AnyId(users, project.user_id)
        THEN /\ last' = Response("create_project", <<>>, <<project>>, 400,
                                 HTTPException("User does not exist"))
             /\ UNCHANGED <<users, projects, tasks, issued, th, tasks0>>
        ELSE /\ CanMakeId
             /\ projects' = ProjectRepository_create(projects, uuid4("projects"), project)
             /\ issued' = [issued EXCEPT !.projects = @ + 1]
             /\ last' = Response("create_project", <<>>, <<project>>, 200,
                                 <<Project(uuid4("projects"), project)>>)
             /\ UNCHANGED <<users, tasks, th, tasks0>>

\* GET /users
get_users ==
    /\ last' = Response("get_users", <<>>, <<>>, 200, users)
    /\ UNCHANGED <<users, projects, tasks, issued, th, tasks0>>

\* POST /users
create_user ==
    \E user \in UserCreates :
        /\ CanMakeId
        /\ users' = UserRepository_create(users, uuid4("users"), user)
        /\ issued' = [issued EXCEPT !.users = @ + 1]
        /\ last' = Response("create_user", <<>>, <<user>>, 200,
                            <<User(uuid4("users"), user)>>)
        /\ UNCHANGED <<projects, tasks, th, tasks0>>

Next ==
    \/ get_tasks
    \/ create_task
    \/ get_task
    \/ update_task
    \/ delete_task
    \/ get_projects
    \/ create_project
    \/ get_users
    \/ create_user

Spec == Init /\ [][Next]_vars

----------------------------------------------------------------------------
(* SpecConc: two Task handlers in two worker threads.                      *)
(* update_task and delete_task are plain `def` handlers, which FastAPI     *)
(* runs in a thread pool; the interpreter can switch threads between any   *)
(* two steps of TaskRepository.update / TaskRepository.delete: between two *)
(* iterations of the scan loop and between the match and the list write.   *)

\* The task lists the requests can find: made by POST /tasks and
\* DELETE /tasks/{task_id}, so with distinct ids in increasing order.
InitialTaskLists ==
    LET n == MaxIds - 2
        T(id) == Task(id, TaskCreate([title |-> "T", description |-> <<>>,
                                      completed |-> <<>>, project_id |-> 1]))
        RECURSIVE Pick(_, _)
        Pick(S, id) ==
            IF id > n THEN <<>>
            ELSE IF id \in S THEN <<T(id)>> \o Pick(S, id + 1)
            ELSE Pick(S, id + 1)
    IN {Pick(S, 1) : S \in SUBSET (1 .. n)}

InitConc ==
    /\ users = <<User(1, [name |-> "Ann"])>>
    /\ projects = <<Project(1, [name |-> "P", user_id |-> 1])>>
    /\ tasks \in InitialTaskLists
    /\ issued = [users |-> 1, projects |-> 1, tasks |-> MaxIds - 2]
    /\ last = Response("none", <<>>, <<>>, 0, <<>>)
    /\ th = [t \in Threads |-> NoThread]
    /\ tasks0 = tasks

\* update_task up to the call of task_repo.update: the check of project_id
thread_update_task(t) ==
    /\ th[t].pc = "idle"
    /\ \E task_id \in ClientIds("tasks"), raw \in RawTasks :
        th' = [th EXCEPT ![t] =
                 IF ~AnyId(projects, raw.project_id)
                 THEN [@ EXCEPT !.pc = "done", !.op = "update_task",
                                !.task_id = task_id, !.body = <<raw>>,
                                !.status = 400]
                 ELSE [@ EXCEPT !.pc = "scan", !.op = "update_task",
                                !.task_id = task_id, !.body = <<raw>>,
                                !.it = 1]]
    /\ UNCHANGED <<users, projects, tasks, issued, last, tasks0>>

\* delete_task up to the call of task_repo.delete
thread_delete_task(t) ==
    /\ th[t].pc = "idle"
    /\ \E task_id \in ClientIds("tasks") :
        th' = [th EXCEPT ![t] =
                 [@ EXCEPT !.pc = "scan", !.op = "delete_task",
                           !.task_id = task_id, !.it = 1]]
    /\ UNCHANGED <<users, projects, tasks, issued, last, tasks0>>

\* One iteration of `for i, task in enumerate(self.tasks)`: the list iterator
\* ends when its index is past the list's current length (the repository
\* returns None / False and the handler raises 404); otherwise the element
\* at the index is compared with task_id.
repo_scan(t) ==
    /\ th[t].pc = "scan"
    /\ th' = [th EXCEPT ![t] =
                IF th[t].it > Len(tasks)
                THEN [@ EXCEPT !.pc = "done", !.status = 404]
                ELSE IF tasks[th[t].it].id = th[t].task_id
                THEN [@ EXCEPT !.pc = "write", !.i = th[t].it]
                ELSE [@ EXCEPT !.it = @ + 1]]
    /\ UNCHANGED <<users, projects, tasks, issued, last, tasks0>>

\* `self.tasks[i] = new_task` / `del self.tasks[i]`: an index past the end
\* of the list raises IndexError, which the handler does not catch (500).
repo_write(t) ==
    /\ th[t].pc = "write"
    /\ IF th[t].i > Len(tasks)
       THEN /\ th' = [th EXCEPT ![t] = [@ EXCEPT !.pc = "done", !.status = 500]]
            /\ tasks' = tasks
       ELSE /\ th' = [th EXCEPT ![t] = [@ EXCEPT !.pc = "done", !.status = 200]]
            /\ tasks' = IF th[t].op = "delete_task"
                        THEN DelAt(tasks, th[t].i)
                        ELSE SetAt(tasks, th[t].i,
                                   Task(th[t].body[1].id, TaskCreate(th[t].body[1])))
    /\ UNCHANGED <<users, projects, issued, last, tasks0>>

NextConc ==
    \E t \in Threads :
        \/ thread_update_task(t)
        \/ thread_delete_task(t)
        \/ repo_scan(t)
        \/ repo_write(t)

SpecConc == InitConc /\ [][NextConc]_vars

----------------------------------------------------------------------------
(* Properties of Spec *)

Ids(xs) == {xs[i].id : i \in DOMAIN xs}

NoDuplicateIds(xs) == \A i, j \in DOMAIN xs : xs[i].id = xs[j].id => i = j

\* The first position of xs that holds identifier id (0 when none does).
FirstWithId(xs, id) ==
    IF \E i \in DOMAIN xs : xs[i].id = id
    THEN CHOOSE i \in DOMAIN xs :
            /\ xs[i].id = id
            /\ \A j \in 1 .. (i - 1) : xs[j].id # id
    ELSE 0

\* The Task a JSON task body stands for.
BodyTask(id, raw) ==
    [id |-> id, title |-> raw.title, description |-> raw.description,
     completed |-> (raw.completed = <<TRUE>>), project_id |-> raw.project_id]

\* r is the elements of xs whose field equals v, in the order of xs.
IsSelection(r, xs, field, v) ==
    LET M == {i \in DOMAIN xs : xs[i][field] = v} IN
    /\ Len(r) = Cardinality(M)
    /\ \A i \in M : r[Cardinality({j \in M : j <= i})] = xs[i]

\* C1: no two records of a collection have the same id, and the id of a
\* record does not change while the record stays in its collection.
IdsKept ==
    /\ \A i \in DOMAIN users : users'[i].id = users[i].id
    /\ \A i \in DOMAIN projects : projects'[i].id = projects[i].id
    /\ Len(tasks') = Len(tasks) =>
            \A i \in DOMAIN tasks : tasks'[i].id = tasks[i].id

C1_IdsUniqueAndImmutable ==
    /\ [](NoDuplicateIds(users) /\ NoDuplicateIds(projects) /\ NoDuplicateIds(tasks))
    /\ [][IdsKept]_vars

\* C2: every stored Task's project_id is the id of a stored Project.
C2_TaskProjectExists ==
    \A i \in DOMAIN tasks : \E j \in DOMAIN projects :
        projects[j].id = tasks[i].project_id

C2_Witness ==
    /\ last.op = "update_task"
    /\ last.status = 200
    /\ Len(projects) > 1
    /\ \E i \in DOMAIN tasks : tasks[i].project_id # projects[1].id

\* C3 (as claimed): a PUT on a task_id that no stored Task has returns 404
\* whatever the body is, and leaves the tasks unchanged.
C3_MissingTaskAlways404 ==
    [][(last'.op = "update_task" /\ last'.arg[1] \notin Ids(tasks))
        => (last'.status = 404 /\ tasks' = tasks)]_vars

\* C3 (amended): a PUT on a task_id that no stored Task has leaves the tasks
\* unchanged; it returns 404 when the body's project_id names a stored
\* Project and 400 when it names none.
C3_MissingTask404Or400 ==
    [][(last'.op = "update_task" /\ last'.arg[1] \notin Ids(tasks))
        => /\ tasks' = tasks
           /\ last'.status = IF last'.body[1].project_id \in Ids(projects)
                             THEN 404 ELSE 400]_vars

C3_Witness ==
    /\ last.op = "update_task"
    /\ last.status = 404
    /\ last.arg[1] \notin Ids(tasks)
    /\ tasks # <<>>

\* C4: a PUT on a stored Task whose body names no stored Project returns 400
\* and leaves users, projects and tasks unchanged.
C4_UnknownProjectRejected ==
    [][(/\ last'.op = "update_task"
        /\ last'.arg[1] \in Ids(tasks)
        /\ last'.body[1].project_id \notin Ids(projects))
        => (/\ last'.status = 400
            /\ last'.resp = <<[detail |-> "Project does not exist"]>>
            /\ UNCHANGED <<users, projects, tasks>>)]_vars

C4_Witness ==
    /\ last.op = "update_task"
    /\ last.status = 400
    /\ last.arg[1] \in Ids(tasks)

\* C5: a DELETE of the task_id that the DELETE just before it removed
\* returns 404.
C5_SecondDelete404 ==
    [][(/\ last.op = "delete_task" /\ last.status = 200
        /\ last'.op = "delete_task" /\ last'.arg = last.arg)
        => last'.status = 404]_vars

\* C6: a POST /projects whose user_id names no stored User returns 400 and
\* leaves the projects unchanged; every stored Project's user_id is the id
\* of a stored User.
C6_ProjectUserExists ==
    /\ [](\A i \in DOMAIN projects : projects[i].user_id \in Ids(users))
    /\ [][(/\ last'.op = "create_project"
           /\ last'.body[1].user_id \notin Ids(users))
           => (/\ last'.status = 400
               /\ last'.resp = <<[detail |-> "User does not exist"]>>
               /\ UNCHANGED <<users, projects, tasks>>)]_vars

C6_Witness ==
    /\ last.op = "create_project"
    /\ last.status = 400
    /\ users # <<>>
    /\ projects # <<>>

\* C7: a POST /tasks that names a stored Project returns 200 and appends one
\* Task with a fresh id and the fields of the body (completed false when
\* omitted); a GET of the returned id right after returns that Task; a GET
\* of a task_id returns 404 exactly when no stored Task has it.
C7_CreateThenGet ==
    [][/\ (/\ last'.op = "create_task"
           /\ last'.body[1].project_id \in Ids(projects))
          => \E id \in (1 .. MaxIds) \ Ids(tasks) :
                /\ last'.status = 200
                /\ last'.resp = <<BodyTask(id, last'.body[1])>>
                /\ tasks' = tasks \o last'.resp
                /\ (last'.body[1].completed = <<>>) => ~tasks'[Len(tasks')].completed
       /\ (/\ last.op = "create_task" /\ last.status = 200
           /\ last'.op = "get_task" /\ last'.arg[1] = last.resp[1].id)
          => (last'.status = 200 /\ last'.resp = last.resp)
       /\ last'.op = "get_task"
          => /\ last'.status \in {200, 404}
             /\ last'.status = 404 <=> last'.arg[1] \notin Ids(tasks)
             /\ UNCHANGED <<users, projects, tasks>>]_vars

C7_Witness ==
    /\ last.op = "get_task"
    /\ last.status = 200
    /\ Len(tasks) > 1
    /\ last.resp = <<tasks[Len(tasks)]>>
    /\ ~last.resp[1].completed

C9_UpdateReplacesFirstMatch ==
    [][(last'.op = "update_task" /\ last'.status = 200)
        => LET k == FirstWithId(tasks, last'.arg[1])
               b == last'.body[1]
           IN /\ k # 0
              /\ Len(tasks') = Len(tasks)
              /\ tasks'[k] = BodyTask(b.id, b)
              /\ last'.resp = <<BodyTask(b.id, b)>>
              /\ \A i \in DOMAIN tasks : i # k => tasks'[i] = tasks[i]
              /\ UNCHANGED <<users, projects>>]_vars

C9_Witness ==
    /\ last.op = "update_task"
    /\ last.status = 200
    /\ last.body[1].id # last.arg[1]
    /\ Len(tasks) = 2
    /\ tasks[1].id = tasks[2].id
    /\ tasks[1] # tasks[2]

----------------------------------------------------------------------------
(* Properties of SpecConc *)

\* The request of thread t, handled alone on the task list ts.
Alone(t, ts) ==
    IF th[t].op = "delete_task"
    THEN delete_task_handler(ts, th[t].task_id)
    ELSE update_task_handler(projects, ts, th[t].task_id, th[t].body[1])

\* The responses and the task list are those of the two requests handled
\* one after the other, t1 first.
SerialOutcome(t1, t2) ==
    LET r1 == Alone(t1, tasks0)
        r2 == Alone(t2, r1.tasks)
    IN /\ th[t1].status = r1.status
       /\ th[t2].status = r2.status
       /\ tasks = r2.tasks

\* C10: when two handlers interleave, their responses and the task list they
\* leave are those of some serial execution of the two requests.
C10_Serializable ==
    (\A t \in Threads : th[t].pc = "done")
        => (SerialOutcome(1, 2) \/ SerialOutcome(2, 1))

====
